---- MODULE Spec2Model ----
(***************************************************************************)
(* Log_Kayit_GUI (src/app.py): the per-day JSON-Lines log store            *)
(* (LogStorage), the timeline renderer (ScheduleCanvas) and the handlers   *)
(* of the window (LogApp).                                                 *)
(*                                                                         *)
(* A Python str is a sequence of one-character strings.  A JSON value is   *)
(* a record [t, v]: t is "str", "int" or "null" and v the characters of    *)
(* the string (or the decimal digits of the number).  A dict is the        *)
(* sequence of its items [k, v] in insertion order.                        *)
(***************************************************************************)
EXTENDS Integers, Sequences, FiniteSets, TLC

VARIABLES
    clock,            \* number of clock steps since start; datetime.now() reads it
    files,            \* LOG_DIRECTORY: stem of each *.jsonl file -> its characters
    appended,         \* history: stem -> payloads handed to append_entry, in call order
    selected_date,    \* LogApp._selected_date
    date_values,      \* LogApp.date_combo["values"]
    tree,             \* LogApp.tree, the rows of the table
    current_entries,  \* LogApp._current_entries
    canvas_width,     \* ScheduleCanvas.canvas.winfo_width()
    canvas_date,      \* ScheduleCanvas._current_date
    canvas_entries,   \* ScheduleCanvas._entries
    cards,            \* the entry cards on the canvas, in drawing order
    raised,           \* exception that ended the last handler, or "none"
    dialog,           \* messagebox shown by the last handler, or "none"
    loaded,           \* whether the last handler called load_entries
    last              \* the last handler that ran

vars == <<clock, files, appended, selected_date, date_values, tree,
          current_entries, canvas_width, canvas_date, canvas_entries, cards,
          raised, dialog, loaded, last>>

(***************************************************************************)
(* Bounds of the model.                                                    *)
(***************************************************************************)
MaxTicks == 2          \* clock steps taken
MaxAppends == 2        \* records written to the store
MaxRenderEntries == 2  \* length of the entry lists handed to render directly

Range(s) == {s[i] : i \in DOMAIN s}

(***************************************************************************)
(* Characters and Python str operations.                                   *)
(***************************************************************************)
\* the characters the model uses, in ascending code point order
CodePointOrder ==
    <<"\t", "\n", "\r", " ", "\"", "+", ",", "-", ".", "0", "1", "2", "3", "4", "5",
      "6", "7", "8", "9", ":", "A", "C", "F", "H", "J", "K", "M", "N", "R", "S", "U",
      "V", "Y", "\\", "a", "b", "c", "d", "e", "g", "i", "j", "k", "l", "m", "n", "o",
      "r", "s", "t", "u", "v", "y", "z", "{", "}", "ç", "ö">>

Ord(c) == CHOOSE i \in DOMAIN CodePointOrder : CodePointOrder[i] = c

Digits == <<"0", "1", "2", "3", "4", "5", "6", "7", "8", "9">>
IsDigit(c) == c \in Range(Digits)
DigitValue(c) == (CHOOSE i \in DOMAIN Digits : Digits[i] = c) - 1

Whitespace == {" ", "\t", "\n", "\r"}

\* a < b on str: lexicographic by code point
RECURSIVE StrLessFrom(_, _, _)
StrLessFrom(a, b, i) ==
    IF i > Len(b) THEN FALSE
    ELSE IF i > Len(a) THEN TRUE
    ELSE IF a[i] = b[i] THEN StrLessFrom(a, b, i + 1)
    ELSE Ord(a[i]) < Ord(b[i])

StrLess(a, b) == StrLessFrom(a, b, 1)

\* str.strip()
RECURSIVE LStrip(_)
LStrip(s) == IF s # <<>> /\ Head(s) \in Whitespace THEN LStrip(Tail(s)) ELSE s

RECURSIVE RStrip(_)
RStrip(s) ==
    IF s # <<>> /\ s[Len(s)] \in Whitespace THEN RStrip(SubSeq(s, 1, Len(s) - 1)) ELSE s

strip(s) == RStrip(LStrip(s))

\* str.split(sep) for a one-character separator
RECURSIVE SplitFrom(_, _, _, _)
SplitFrom(s, sep, i, part) ==
    IF i > Len(s) THEN <<part>>
    ELSE IF s[i] = sep THEN <<part>> \o SplitFrom(s, sep, i + 1, <<>>)
    ELSE SplitFrom(s, sep, i + 1, Append(part, s[i]))

split(s, sep) == SplitFrom(s, sep, 1, <<>>)

\* value of a non-empty run of decimal digits
RECURSIVE DigitsValue(_)
DigitsValue(s) ==
    IF s = <<>> THEN 0 ELSE 10 * DigitsValue(SubSeq(s, 1, Len(s) - 1)) + DigitValue(s[Len(s)])

AllDigits(s) == s # <<>> /\ \A i \in DOMAIN s : IsDigit(s[i])

\* int(part): surrounding whitespace, an optional sign, decimal digits; else ValueError
int(part) ==
    LET body == strip(part)
        signed == body # <<>> /\ Head(body) \in {"+", "-"}
        digits == IF signed THEN Tail(body) ELSE body
    IN  IF AllDigits(digits)
        THEN [ok |-> TRUE,
              n |-> IF signed /\ Head(body) = "-" THEN 0 - DigitsValue(digits)
                    ELSE DigitsValue(digits)]
        ELSE [ok |-> FALSE, n |-> 0]

\* str(n) for n >= 0
RECURSIVE Decimal(_)
Decimal(n) ==
    IF n < 10 THEN <<Digits[n + 1]>> ELSE Decimal(n \div 10) \o <<Digits[(n % 10) + 1]>>

\* s.zfill(width)
RECURSIVE zfill(_, _)
zfill(s, width) == IF Len(s) >= width THEN s ELSE zfill(<<"0">> \o s, width)

\* the %Y, %m, %d, %H, %M, %S fields of strftime
ZeroPad(n, width) == zfill(Decimal(n), width)

(***************************************************************************)
(* datetime: the clock, strftime and strptime.                             *)
(***************************************************************************)
IsLeap(y) == (y % 4 = 0 /\ y % 100 # 0) \/ y % 400 = 0

DaysInMonth(y, m) ==
    IF m = 2 THEN (IF IsLeap(y) THEN 29 ELSE 28)
    ELSE IF m \in {4, 6, 9, 11} THEN 30 ELSE 31

MonthNames ==
    <<<<"J", "a", "n", "u", "a", "r", "y">>, <<"F", "e", "b", "r", "u", "a", "r", "y">>>>

\* the clock starts on 2024-01-31 at 05:20:00 and a step is 16 h 10 min 5 s;
\* seconds count from 2024-01-01 00:00:00
ClockStart == 30 * 86400 + 5 * 3600 + 20 * 60
ClockStep == 16 * 3600 + 10 * 60 + 5

RECURSIVE MonthDay(_, _, _)
MonthDay(y, m, d) ==
    IF d < DaysInMonth(y, m) THEN [month |-> m, day |-> d + 1]
    ELSE MonthDay(y, m + 1, d - DaysInMonth(y, m))

\* datetime.now() when the clock has made clk steps
now(clk) ==
    LET secs == ClockStart + clk * ClockStep
        md == MonthDay(2024, 1, secs \div 86400)
        sod == secs % 86400
    IN  [year |-> 2024, month |-> md.month, day |-> md.day,
         hour |-> sod \div 3600, minute |-> (sod % 3600) \div 60, second |-> sod % 60]

\* date.strftime("%Y-%m-%d")
strftime_date(date) ==
    ZeroPad(date.year, 4) \o <<"-">> \o ZeroPad(date.month, 2) \o <<"-">> \o ZeroPad(date.day, 2)

\* date.strftime("%H:%M:%S")
strftime_time(date) ==
    ZeroPad(date.hour, 2) \o <<":">> \o ZeroPad(date.minute, 2) \o <<":">> \o ZeroPad(date.second, 2)

\* date.strftime("%d %B %Y")
strftime_human(date) ==
    ZeroPad(date.day, 2) \o <<" ">> \o MonthNames[date.month] \o <<" ">> \o ZeroPad(date.year, 4)

\* datetime.strptime(date_str, "%Y-%m-%d"): four digits, one or two digits, one or
\* two digits, naming a day of the calendar; ok = FALSE is ValueError
strptime(date_str) ==
    LET parts == split(date_str, "-")
        bad == [ok |-> FALSE,
                date |-> [year |-> 0, month |-> 0, day |-> 0, hour |-> 0, minute |-> 0, second |-> 0]]
    IN  IF Len(parts) # 3 THEN bad
        ELSE IF ~(AllDigits(parts[1]) /\ Len(parts[1]) = 4) THEN bad
        ELSE IF ~(AllDigits(parts[2]) /\ Len(parts[2]) \in {1, 2}) THEN bad
        ELSE IF ~(AllDigits(parts[3]) /\ Len(parts[3]) \in {1, 2}) THEN bad
        ELSE LET y == DigitsValue(parts[1])
                 m == DigitsValue(parts[2])
                 d == DigitsValue(parts[3])
             IN  IF y >= 1 /\ m \in 1..12 /\ d >= 1 /\ d <= DaysInMonth(y, m)
                 THEN [ok |-> TRUE,
                       date |-> [year |-> y, month |-> m, day |-> d,
                                 hour |-> 0, minute |-> 0, second |-> 0]]
                 ELSE bad

(***************************************************************************)
(* json.dumps(payload, ensure_ascii=False) and json.loads(line).           *)
(***************************************************************************)
Str(s) == [t |-> "str", v |-> s]
Num(digits) == [t |-> "int", v |-> digits]
Null == [t |-> "null", v |-> <<>>]

\* the slip of writing a string between quotes without escaping it
EscapeCharUnescaped(c) == <<c>>

\* a character inside a JSON string: quote, backslash and control characters are
\* escaped, everything else (non-ASCII too) is written as it is
EscapeChar(c) ==
    IF c = "\"" THEN <<"\\", "\"">>
    ELSE IF c = "\\" THEN <<"\\", "\\">>
    ELSE IF c = "\n" THEN <<"\\", "n">>
    ELSE IF c = "\r" THEN <<"\\", "r">>
    ELSE IF c = "\t" THEN <<"\\", "t">>
    ELSE <<c>>

RECURSIVE Escape(_)
Escape(s) == IF s = <<>> THEN <<>> ELSE EscapeChar(Head(s)) \o Escape(Tail(s))

dumps_str(s) == <<"\"">> \o Escape(s) \o <<"\"">>

dumps_value(val) ==
    IF val.t = "str" THEN dumps_str(val.v)
    ELSE IF val.t = "int" THEN val.v
    ELSE <<"n", "u", "l", "l">>

RECURSIVE dumps_items(_)
dumps_items(d) ==
    IF d = <<>> THEN <<>>
    ELSE dumps_str(d[1].k) \o <<":", " ">> \o dumps_value(d[1].v)
         \o (IF Len(d) > 1 THEN <<",", " ">> ELSE <<>>) \o dumps_items(Tail(d))

\* json.dumps of a dict
dumps(payload) == <<"{">> \o dumps_items(payload) \o <<"}">>

At(s, i) == IF i \in 1..Len(s) THEN s[i] ELSE ""

RECURSIVE SkipWs(_, _)
SkipWs(s, i) == IF At(s, i) \in Whitespace THEN SkipWs(s, i + 1) ELSE i

ParseFail == [ok |-> FALSE, val |-> <<>>, next |-> 0]

Unescape(c) ==
    IF c = "n" THEN "\n" ELSE IF c = "r" THEN "\r" ELSE IF c = "t" THEN "\t" ELSE c

\* the characters of a JSON string whose opening quote is before position i
RECURSIVE ParseStringBody(_, _, _)
ParseStringBody(s, i, acc) ==
    IF i > Len(s) THEN ParseFail
    ELSE IF s[i] = "\"" THEN [ok |-> TRUE, val |-> acc, next |-> i + 1]
    ELSE IF s[i] \in {"\n", "\r", "\t"} THEN ParseFail
    ELSE IF s[i] = "\\"
         THEN IF At(s, i + 1) \in {"\"", "\\", "n", "r", "t"}
              THEN ParseStringBody(s, i + 2, Append(acc, Unescape(s[i + 1])))
              ELSE ParseFail
    ELSE ParseStringBody(s, i + 1, Append(acc, s[i]))

RECURSIVE ScanDigits(_, _)
ScanDigits(s, i) == IF IsDigit(At(s, i)) THEN ScanDigits(s, i + 1) ELSE i

\* a JSON value at position i: a string, null or an integer
ParseValue(s, i) ==
    IF At(s, i) = "\""
    THEN LET r == ParseStringBody(s, i + 1, <<>>)
         IN  IF r.ok THEN [ok |-> TRUE, val |-> Str(r.val), next |-> r.next] ELSE ParseFail
    ELSE IF SubSeq(s, i, i + 3) = <<"n", "u", "l", "l">>
    THEN [ok |-> TRUE, val |-> Null, next |-> i + 4]
    ELSE LET from == IF At(s, i) = "-" THEN i + 1 ELSE i
             to == ScanDigits(s, from)
         IN  IF to > from
             THEN [ok |-> TRUE, val |-> Num(SubSeq(s, i, to - 1)), next |-> to]
             ELSE ParseFail

\* d[key] = val on a dict: a repeated key keeps its place and takes the new value
DictSet(d, key, val) ==
    IF \E i \in DOMAIN d : d[i].k = key
    THEN [i \in DOMAIN d |-> IF d[i].k = key THEN [k |-> key, v |-> val] ELSE d[i]]
    ELSE Append(d, [k |-> key, v |-> val])

\* the end of a member of a JSON object: "," and the next member, or "}"
RECURSIVE ParseMembers(_, _, _)
MemberEnd(s, after, dict) ==
    IF At(s, after) = "," THEN ParseMembers(s, SkipWs(s, after + 1), dict)
    ELSE IF At(s, after) = "}" THEN [ok |-> TRUE, val |-> dict, next |-> after + 1]
    ELSE ParseFail

MemberValue(s, acc, key, val) ==
    IF ~val.ok THEN ParseFail
    ELSE MemberEnd(s, SkipWs(s, val.next), DictSet(acc, key, val.val))

MemberColon(s, acc, key, colon) ==
    IF At(s, colon) # ":" THEN ParseFail
    ELSE MemberValue(s, acc, key, ParseValue(s, SkipWs(s, colon + 1)))

MemberKey(s, acc, key) ==
    IF ~key.ok THEN ParseFail ELSE MemberColon(s, acc, key.val, SkipWs(s, key.next))

\* the members of a JSON object from position i, which follows "{" or ","
ParseMembers(s, i, acc) ==
    IF At(s, i) # "\"" THEN ParseFail
    ELSE MemberKey(s, acc, ParseStringBody(s, i + 1, <<>>))

ObjectEnd(line, obj) ==
    IF obj.ok /\ SkipWs(line, obj.next) > Len(line) THEN obj ELSE ParseFail

ObjectBody(line, first) ==
    ObjectEnd(line, IF At(line, first) = "}"
                    THEN [ok |-> TRUE, val |-> <<>>, next |-> first + 1]
                    ELSE ParseMembers(line, first, <<>>))

ObjectStart(line, start) ==
    IF At(line, start) # "{" THEN ParseFail ELSE ObjectBody(line, SkipWs(line, start + 1))

\* json.loads of a line holding one object; ok = FALSE is JSONDecodeError
loads(line) == ObjectStart(line, SkipWs(line, 1))

(***************************************************************************)
(* LogStorage.  The directory is the function files: the name of each      *)
(* *.jsonl file in it -> the characters of the file.                       *)
(***************************************************************************)
Suffix == <<".", "j", "s", "o", "n", "l">>

\* Path.stem of a name that ends in .jsonl
stem(name) == SubSeq(name, 1, Len(name) - Len(Suffix))

_path_for_date(date) == strftime_date(date) \o Suffix

\* the slip of opening the file with mode "w": the text replaces the file
OpenTruncateWrite(fs, path, text) ==
    [p \in DOMAIN fs \cup {path} |-> IF p = path THEN text ELSE fs[p]]

\* path.open("a").write(text): the file is created when absent and the text added at
\* its end
OpenAppendWrite(fs, path, text) ==
    IF path \in DOMAIN fs THEN [fs EXCEPT ![path] = @ \o text]
    ELSE [p \in DOMAIN fs \cup {path} |-> IF p = path THEN text ELSE fs[p]]

append_entry(fs, date, payload) ==
    OpenAppendWrite(fs, _path_for_date(date), dumps(payload) \o <<"\n">>)

\* the lines of a text file, each with its line end: a line ends at "\n" or "\r"
\* (universal newlines)
RECURSIVE LinesFrom(_, _)
LinesFrom(text, start) ==
    IF start > Len(text) THEN <<>>
    ELSE LET ends == {i \in start..Len(text) : text[i] \in {"\n", "\r"}}
         IN  IF ends = {} THEN <<SubSeq(text, start, Len(text))>>
             ELSE LET end == CHOOSE i \in ends : \A j \in ends : i <= j
                  IN  <<SubSeq(text, start, end)>> \o LinesFrom(text, end + 1)

Lines(text) == LinesFrom(text, 1)

LoadJoin(obj, rest) ==
    IF obj.ok /\ rest.ok THEN [ok |-> TRUE, entries |-> <<obj.val>> \o rest.entries]
    ELSE [ok |-> FALSE, entries |-> <<>>]

\* [json.loads(line) for line in fp if line.strip()]
RECURSIVE LoadLines(_)
LoadLines(ls) ==
    IF ls = <<>> THEN [ok |-> TRUE, entries |-> <<>>]
    ELSE IF strip(Head(ls)) = <<>> THEN LoadLines(Tail(ls))
    ELSE LoadJoin(loads(Head(ls)), LoadLines(Tail(ls)))

ReadPath(fs, path) ==
    IF path \notin DOMAIN fs THEN [ok |-> TRUE, entries |-> <<>>]
    ELSE LoadLines(Lines(fs[path]))

\* load_entries: ok = FALSE is the JSONDecodeError of a line that is not JSON
load_entries(fs, date) == ReadPath(fs, _path_for_date(date))

\* the slip of leaving out reverse=True: ascending by name
RECURSIVE SortedAscending(_)
SortedAscending(names) ==
    IF names = {} THEN <<>>
    ELSE LET low == CHOOSE n \in names : \A m \in names : ~StrLess(m, n)
         IN  <<low>> \o SortedAscending(names \ {low})

\* sorted(paths, reverse=True): descending by name, code point by code point
RECURSIVE SortedReverse(_)
SortedReverse(names) ==
    IF names = {} THEN <<>>
    ELSE LET top == CHOOSE n \in names : \A m \in names : ~StrLess(n, m)
         IN  <<top>> \o SortedReverse(names \ {top})

RECURSIVE Stems(_)
Stems(paths) == IF paths = <<>> THEN <<>> ELSE <<stem(Head(paths))>> \o Stems(Tail(paths))

available_dates(fs, clk) ==
    LET dates == Stems(SortedReverse(DOMAIN fs))
    IN  IF dates = <<>> THEN <<strftime_date(now(clk))>> ELSE dates

(***************************************************************************)
(* ScheduleCanvas.  Vertical positions are kept in sixtieths of a pixel    *)
(* (y_x60 = 60 * y) and the row offset in minutes (60 * row_offset), so    *)
(* that hour + minute / 60 stays an integer.                               *)
(***************************************************************************)
SEVERITY_LEVELS ==
    <<[level |-> <<"N", "o", "r", "m", "a", "l">>, color |-> "#0052CC"],
      [level |-> <<"A", "l", "e", "r", "t">>, color |-> "#FFAB00"],
      [level |-> <<"C", "r", "i", "t", "i", "c", "a", "l">>, color |-> "#DE350B"]>>

_start_hour == 7
_end_hour == 21
_row_height == 44
_left_margin == 72
_top_margin == 48
card_height == 54

KeyTime == <<"t", "i", "m", "e">>
KeySystem == <<"s", "y", "s", "t", "e", "m">>
KeySeverity == <<"s", "e", "v", "e", "r", "i", "t", "y">>
KeyMessage == <<"m", "e", "s", "s", "a", "g", "e">>

\* dict.get(key, default)
get(entry, key, default) ==
    IF \E i \in DOMAIN entry : entry[i].k = key
    THEN entry[CHOOSE i \in DOMAIN entry : entry[i].k = key].v
    ELSE default

\* a == b on values: values of different types are unequal
ValueEq(a, b) == a.t = b.t /\ a.v = b.v

\* next((color for level, color in SEVERITY_LEVELS if level == severity), "#0052CC")
SeverityColor(severity) ==
    IF \E i \in DOMAIN SEVERITY_LEVELS : ValueEq(Str(SEVERITY_LEVELS[i].level), severity)
    THEN SEVERITY_LEVELS[CHOOSE i \in DOMAIN SEVERITY_LEVELS :
                            ValueEq(Str(SEVERITY_LEVELS[i].level), severity)].color
    ELSE "#0052CC"

\* the sort key of _redraw
TimeKey(entry) == get(entry, KeyTime, Str(<<>>))

\* a < b on two sort keys of one type
KeyLess(a, b) == IF a.t = "str" THEN StrLess(a.v, b.v) ELSE int(a.v).n < int(b.v).n

\* sorted() compares keys with <: str with str and int with int only; None, or a mix
\* of types, in a list of two or more is TypeError
SortRaises(entries) ==
    /\ Len(entries) >= 2
    /\ ~ \/ \A i \in DOMAIN entries : TimeKey(entries[i]).t = "str"
         \/ \A i \in DOMAIN entries : TimeKey(entries[i]).t = "int"

\* one step of a stable sort: entry goes behind every element whose key is not greater
RECURSIVE InsertByKey(_, _)
InsertByKey(done, entry) ==
    IF done # <<>> /\ ~KeyLess(TimeKey(entry), TimeKey(Head(done)))
    THEN <<Head(done)>> \o InsertByKey(Tail(done), entry)
    ELSE <<entry>> \o done

RECURSIVE SortFrom(_, _)
SortFrom(entries, done) ==
    IF entries = <<>> THEN done ELSE SortFrom(Tail(entries), InsertByKey(done, Head(entries)))

\* the slip of drawing the entries in the order they were given
UnsortedEntries(entries) == entries

\* sorted(self._entries, key=lambda item: item.get("time", "")), when it does not raise
sorted_entries(entries) == SortFrom(entries, <<>>)

\* hour, minute, *_ = [int(part) for part in time_str.split(":")], with the
\* except (ValueError, TypeError) branch: a part that is no integer, or fewer than
\* two parts, gives (_start_hour, 0)
HourMinute(time_chars) ==
    LET parts == split(time_chars, ":")
    IN  IF Len(parts) >= 2 /\ \A i \in DOMAIN parts : int(parts[i]).ok
        THEN [hour |-> int(parts[1]).n, minute |-> int(parts[2]).n]
        ELSE [hour |-> _start_hour, minute |-> 0]

Max(a, b) == IF a >= b THEN a ELSE b
Min(a, b) == IF a <= b THEN a ELSE b

\* max(0, min(row_offset, _end_hour - _start_hour)), in minutes
ClampOffset(offset_min) == Max(0, Min(offset_min, (_end_hour - _start_hour) * 60))

\* y of the grid line of an hour, in _draw_base_grid
GridLineY(hour) == _top_margin + (hour - _start_hour) * _row_height

\* the card of an entry whose row offset, in minutes, is known
Card(entry, time_str, row_offset_min, left, available_width) ==
    [entry |-> entry,
     row_offset_min |-> row_offset_min,
     y_x60 |-> _top_margin * 60 + row_offset_min * _row_height,
     top_x60 |-> (_top_margin * 60 + row_offset_min * _row_height) - (card_height * 60) \div 2,
     bottom_x60 |-> (_top_margin * 60 + row_offset_min * _row_height) - (card_height * 60) \div 2
                    + card_height * 60,
     left |-> left,
     right |-> left + available_width,
     color |-> SeverityColor(get(entry, KeySeverity, Str(SEVERITY_LEVELS[1].level))),
     title |-> get(entry, KeySystem, Str(<<>>)),
     time_text |-> time_str,
     body |-> get(entry, KeyMessage, Str(<<>>))]

\* row_offset = (hour + minute / 60) - _start_hour, clamped, in minutes
RowOffsetMin(hm) == ClampOffset((hm.hour * 60 + hm.minute) - _start_hour * 60)

\* int(c.winfo_width()) or 620
CanvasWidth(width) == IF width = 0 THEN 620 ELSE width

CardAt(entry, time_str, width) ==
    IF time_str.t # "str" THEN [ok |-> FALSE, card |-> <<>>]
    ELSE [ok |-> TRUE,
          card |-> Card(entry, time_str, RowOffsetMin(HourMinute(time_str.v)),
                        _left_margin + 12,
                        Max(320, CanvasWidth(width) - (_left_margin + 12) - 32))]

\* _draw_entry_card: ok = FALSE is the AttributeError of time_str.split on a value
\* that is no str, which the except clause does not catch
_draw_entry_card(entry, width) ==
    CardAt(entry, get(entry, KeyTime, Str(<<"0", "0", ":", "0", "0">>)), width)

\* for entry in sorted_entries: self._draw_entry_card(entry)
RECURSIVE DrawCards(_, _, _)
DrawNext(entries, width, drawn, r) ==
    IF r.ok THEN DrawCards(Tail(entries), width, Append(drawn, r.card))
    ELSE [raised |-> "AttributeError", cards |-> drawn]

DrawCards(entries, width, drawn) ==
    IF entries = <<>> THEN [raised |-> "none", cards |-> drawn]
    ELSE DrawNext(entries, width, drawn, _draw_entry_card(Head(entries), width))

\* _redraw: the canvas is cleared, then the cards are drawn in sorted order
_redraw(entries, width) ==
    IF SortRaises(entries) THEN [raised |-> "TypeError", cards |-> <<>>]
    ELSE DrawCards(sorted_entries(entries), width, <<>>)

(***************************************************************************)
(* LogApp.                                                                 *)
(***************************************************************************)
\* the system and the severity the form offers in the model: SYSTEMS[6] and the
\* last of SEVERITY_LEVELS
FormSystems == {<<"R", "a", "d", "a", "r">>}
FormSeverities == {SEVERITY_LEVELS[3].level}

\* what the user may have typed into message_text when the button is pressed
MessageTexts ==
    {<<>>,
     <<" ", "\t", "\n">>,
     <<"o", "k">>,
     <<" ", "a", "\"", "b", "\\", "n", "\n", "{", "ç", "}", "\r", "\n">>}

\* widths the canvas is given by a <Configure> event; before it is mapped
\* winfo_width() is 1
Widths == {620}

\* _insert_tree_item: the row appended to the table
_insert_tree_item(entry) ==
    LET severity == get(entry, KeySeverity, Str(<<>>))
    IN  [values |-> <<get(entry, KeyTime, Null), get(entry, KeySystem, Null), severity,
                      get(entry, KeyMessage, Null)>>,
         tags |-> severity,
         foreground |-> SeverityColor(severity)]

RECURSIVE TreeRows(_)
TreeRows(entries) ==
    IF entries = <<>> THEN <<>> ELSE <<_insert_tree_item(Head(entries))>> \o TreeRows(Tail(entries))

\* _populate_dates: the combobox values and the selection after it
_populate_dates(fs, clk, selected) ==
    LET dates == available_dates(fs, clk)
    IN  [values |-> dates,
         selected |-> IF selected \in Range(dates) THEN selected ELSE dates[1]]

Rendered(view, date_label, entries, r) ==
    [view EXCEPT !.canvas_date = date_label, !.canvas_entries = entries,
                 !.cards = r.cards, !.raised = r.raised]

\* ScheduleCanvas.render on a view [tree, current_entries, canvas_date,
\* canvas_entries, cards, raised, dialog, loaded]
render(view, date_label, entries, width) ==
    Rendered(view, date_label, entries, _redraw(entries, width))

\* the slip of not deleting the rows of the table before the new ones are inserted
LoadIntoKeepingRows(view, date, got, width) ==
    IF ~got.ok
    THEN [view EXCEPT !.loaded = TRUE, !.raised = "JSONDecodeError"]
    ELSE render([view EXCEPT !.tree = @ \o TreeRows(got.entries),
                             !.current_entries = got.entries,
                             !.loaded = TRUE],
                strftime_human(date), got.entries, width)

\* _load_selected_date once the rows of the table are deleted and load_entries
\* has returned or raised
LoadInto(view, date, got, width) ==
    IF ~got.ok
    THEN [view EXCEPT !.tree = <<>>, !.loaded = TRUE, !.raised = "JSONDecodeError"]
    ELSE render([view EXCEPT !.tree = TreeRows(got.entries),
                             !.current_entries = got.entries,
                             !.loaded = TRUE],
                strftime_human(date), got.entries, width)

\* the slip of deleting the rows of the table before the date is parsed
LoadParsedAfterClearing(fs, parsed, view, width) ==
    IF ~parsed.ok THEN [view EXCEPT !.tree = <<>>, !.dialog = "showerror"]
    ELSE LoadInto(view, parsed.date, load_entries(fs, parsed.date), width)

LoadParsed(fs, parsed, view, width) ==
    IF ~parsed.ok THEN [view EXCEPT !.dialog = "showerror"]
    ELSE LoadInto(view, parsed.date, load_entries(fs, parsed.date), width)

\* _load_selected_date on a view
_load_selected_date(fs, selected, view, width) ==
    LoadParsed(fs, strptime(selected), view, width)

\* the view a handler starts from
View ==
    [tree |-> tree, current_entries |-> current_entries, canvas_date |-> canvas_date,
     canvas_entries |-> canvas_entries, cards |-> cards,
     raised |-> "none", dialog |-> "none", loaded |-> FALSE]

\* the view a handler leaves behind
SetView(view) ==
    /\ tree' = view.tree
    /\ current_entries' = view.current_entries
    /\ canvas_date' = view.canvas_date
    /\ canvas_entries' = view.canvas_entries
    /\ cards' = view.cards
    /\ raised' = view.raised
    /\ dialog' = view.dialog
    /\ loaded' = view.loaded

\* the entry _save_entry builds
NewEntry(date, system, severity, message) ==
    <<[k |-> KeyTime, v |-> Str(strftime_time(date))],
      [k |-> KeySystem, v |-> Str(system)],
      [k |-> KeySeverity, v |-> Str(severity)],
      [k |-> KeyMessage, v |-> Str(message)]>>

\* message_text.get("1.0", "end"): the text and the newline Tk ends it with
TextGet(text) == text \o <<"\n">>

\* the slip of leaving out .strip()
UnstrippedMessage(text) == TextGet(text)

\* message_text.get("1.0", "end").strip()
SubmittedMessage(text) == strip(TextGet(text))

\* _save_entry with an empty message: the warning, and nothing else
SaveRejected ==
    /\ SetView([View EXCEPT !.dialog = "showwarning"])
    /\ UNCHANGED <<files, appended, selected_date, date_values>>

\* _save_entry with a message
SaveAccepted(system, severity, message) ==
    LET date == now(clock)
        entry == NewEntry(date, system, severity, message)
        fs == append_entry(files, date, entry)
        shown == IF selected_date = strftime_date(date)
                 THEN render([View EXCEPT !.tree = Append(@, _insert_tree_item(entry)),
                                          !.current_entries = Append(@, entry)],
                             strftime_human(date), Append(current_entries, entry),
                             canvas_width)
                 ELSE View
        dates == _populate_dates(fs, clock, selected_date)
    IN  /\ files' = fs
        /\ appended' = Append(appended, [date |-> date, payload |-> entry])
        /\ IF shown.raised # "none"
           THEN /\ SetView(shown)
                /\ UNCHANGED <<selected_date, date_values>>
           ELSE LET view == _load_selected_date(fs, strftime_date(date), shown, canvas_width)
                IN  /\ date_values' = dates.values
                    /\ selected_date' = strftime_date(date)
                    /\ SetView(view)

\* the submit button, pressed with text in message_text
_save_entry ==
    \E text \in MessageTexts :
        /\ last' = [op |-> "_save_entry", text |-> text]
        /\ UNCHANGED <<clock, canvas_width>>
        /\ IF SubmittedMessage(text) = <<>> THEN SaveRejected
           ELSE /\ Len(appended) < MaxAppends
                /\ \E system \in FormSystems, severity \in FormSeverities :
                       SaveAccepted(system, severity, SubmittedMessage(text))

\* the "Bugüne Git" button
_goto_today ==
    LET today == strftime_date(now(clock))
        dates == _populate_dates(files, clock, today)
        view == _load_selected_date(files, dates.selected, View, canvas_width)
    IN  /\ selected_date' = dates.selected
        /\ date_values' = dates.values
        /\ SetView(view)
        /\ last' = [op |-> "_goto_today", text |-> <<>>]
        /\ UNCHANGED <<clock, files, appended, canvas_width>>

\* <<ComboboxSelected>>: the user picks one of the combobox values
ComboboxSelected ==
    \E date_str \in Range(date_values) :
        LET view == _load_selected_date(files, date_str, View, canvas_width)
        IN  /\ selected_date' = date_str
            /\ SetView(view)
            /\ last' = [op |-> "ComboboxSelected", text |-> <<>>]
            /\ UNCHANGED <<clock, files, appended, date_values, canvas_width>>

\* _on_resize: the canvas gets a new width and, once a date was rendered, is redrawn
_on_resize ==
    \E width \in Widths :
        /\ width # canvas_width
        /\ canvas_width' = width
        /\ IF canvas_date # <<>>
           THEN LET r == _redraw(canvas_entries, width)
                IN  cards' = r.cards /\ raised' = r.raised
           ELSE cards' = cards /\ raised' = "none"
        /\ dialog' = "none"
        /\ loaded' = FALSE
        /\ last' = [op |-> "_on_resize", text |-> <<>>]
        /\ UNCHANGED <<clock, files, appended, selected_date, date_values,
                       tree, current_entries, canvas_date, canvas_entries>>

\* time passes: one clock step
ClockStepPasses ==
    /\ clock < MaxTicks
    /\ clock' = clock + 1
    /\ last' = [op |-> "clock", text |-> <<>>]
    /\ raised' = "none"
    /\ dialog' = "none"
    /\ loaded' = FALSE
    /\ UNCHANGED <<files, appended, selected_date, date_values, tree,
                   current_entries, canvas_width, canvas_date, canvas_entries, cards>>

\* LOG_DIRECTORY when the program starts: empty, or holding one file that the
\* program did not write and whose name is no date
EmptyDirectory == [p \in {} |-> <<>>]
ForeignName == <<"n", "o", "t", "e", "s">> \o Suffix
StartDirectories == {EmptyDirectory, [p \in {ForeignName} |-> <<>>]}

\* the window once __init__ has run _populate_dates and _load_selected_date
Constructed(dates, view) ==
    /\ selected_date = dates.selected
    /\ date_values = dates.values
    /\ tree = view.tree
    /\ current_entries = view.current_entries
    /\ canvas_date = view.canvas_date
    /\ canvas_entries = view.canvas_entries
    /\ cards = view.cards
    /\ raised = view.raised
    /\ dialog = view.dialog
    /\ loaded = view.loaded
    /\ last = [op |-> "__init__", text |-> <<>>]

NewView ==
    [tree |-> <<>>, current_entries |-> <<>>, canvas_date |-> <<>>,
     canvas_entries |-> <<>>, cards |-> <<>>,
     raised |-> "none", dialog |-> "none", loaded |-> FALSE]

InitDates(dates) ==
    Constructed(dates, _load_selected_date(files, dates.selected, NewView, 1))

\* LogApp.__init__: _populate_dates, then _load_selected_date
Init ==
    /\ clock = 0
    /\ files \in StartDirectories
    /\ appended = <<>>
    /\ canvas_width = 1
    /\ InitDates(_populate_dates(files, 0, strftime_date(now(0))))

Next ==
    \/ _save_entry
    \/ _goto_today
    \/ ComboboxSelected
    \/ _on_resize
    \/ ClockStepPasses

Spec == Init /\ [][Next]_vars

(***************************************************************************)
(* The renderer on its own: render is called with entry lists that no      *)
(* handler of the window builds (records of a log file written by hand or  *)
(* by another program), and the canvas is resized.                         *)
(***************************************************************************)
SampleTimes ==
    {Str(<<"0", "8", ":", "0", "0">>),
     Str(<<"0", "9", ":", "0", "0">>),
     Str(<<"2", "3", ":", "3", "0">>),
     Str(<<"0", "6", ":", "1", "5", ":", "4", "0">>),
     Str(<<"b", "a", "d">>),
     Str(<<"9">>),
     Null,
     Num(<<"9", "3", "0">>)}

SampleEntry(time) ==
    <<[k |-> KeyTime, v |-> time],
      [k |-> KeySystem, v |-> Str(<<"R", "a", "d", "a", "r">>)],
      [k |-> KeySeverity, v |-> Str(SEVERITY_LEVELS[2].level)],
      [k |-> KeyMessage, v |-> Str(<<"o", "k">>)]>>

\* an entry without "time"
UntimedEntry ==
    <<[k |-> KeySystem, v |-> Str(<<"R", "a", "d", "a", "r">>)],
      [k |-> KeyMessage, v |-> Str(<<"o", "k">>)]>>

SampleEntries == {SampleEntry(time) : time \in SampleTimes} \cup {UntimedEntry}

RenderInputs == UNION {[1..n -> SampleEntries] : n \in 0..MaxRenderEntries}

\* ScheduleCanvas.render(date_label, entries)
CanvasRender ==
    \E entries \in RenderInputs :
        /\ SetView(render(View, strftime_human(now(clock)), entries, canvas_width))
        /\ last' = [op |-> "render", text |-> <<>>]
        /\ UNCHANGED <<clock, files, appended, selected_date, date_values, canvas_width>>

RenderNext ==
    \/ CanvasRender
    \/ _on_resize

\* the window is constructed on an empty LOG_DIRECTORY
RenderInit == Init /\ files = EmptyDirectory

RenderSpec == RenderInit /\ [][RenderNext]_vars

(***************************************************************************)
(* Properties.                                                             *)
(***************************************************************************)
Today == strftime_date(now(clock))

\* the payloads handed to append_entry for the day of date, in call order
RECURSIVE PayloadsOn(_, _)
PayloadsOn(calls, date) ==
    IF calls = <<>> THEN <<>>
    ELSE (IF strftime_date(Head(calls).date) = strftime_date(date)
          THEN <<Head(calls).payload>> ELSE <<>>) \o PayloadsOn(Tail(calls), date)

\* the days the clock of the model can show, and a day on which nothing is written
CheckedDates ==
    {now(c) : c \in 0..MaxTicks} \cup {strptime(<<"2", "0", "2", "4", "-", "0", "1", "-", "3", "0">>).date}

IsPrefix(a, b) == Len(a) <= Len(b) /\ SubSeq(b, 1, Len(a)) = a

\* text that is empty or all whitespace
IsBlank(text) == \A i \in DOMAIN text : text[i] \in Whitespace

\* C1: for every date, load_entries returns exactly the payloads appended for that
\* date, in call order and field by field as they were written; for a date with no
\* append it returns the empty sequence.
C1_AppendOrderRoundTrip ==
    \A date \in CheckedDates :
        load_entries(files, date) = [ok |-> TRUE, entries |-> PayloadsOn(appended, date)]

\* two records with different messages, one of them with a quote, a backslash, a
\* line break and a non-ASCII letter, were appended for one day and read back
C1_Witness ==
    /\ Len(PayloadsOn(appended, now(clock))) = 2
    /\ load_entries(files, now(clock)).entries = PayloadsOn(appended, now(clock))
    /\ get(appended[1].payload, KeyMessage, Null) # get(appended[2].payload, KeyMessage, Null)
    /\ \E i \in 1..2 : "\n" \in Range(get(appended[i].payload, KeyMessage, Null).v)
                       /\ "ç" \in Range(get(appended[i].payload, KeyMessage, Null).v)

\* C2: every step leaves every file in place and extends it (its old characters, and
\* its old records, are a prefix of the new ones), changes at most one file, and
\* that file is the one of the current day.
C2_AppendOnly ==
    [][/\ \A path \in DOMAIN files :
              /\ path \in DOMAIN files'
              /\ IsPrefix(files[path], files'[path])
              /\ IsPrefix(LoadLines(Lines(files[path])).entries,
                          LoadLines(Lines(files'[path])).entries)
       /\ \A path \in DOMAIN files' :
              (path \notin DOMAIN files \/ files'[path] # files[path])
                  => path = _path_for_date(now(clock))]_vars

\* a second record was appended to a day's file while another file exists
C2_Witness ==
    /\ last.op = "_save_entry"
    /\ Cardinality(DOMAIN files) >= 2
    /\ \E path \in DOMAIN files : Len(LoadLines(Lines(files[path])).entries) = 2

\* C3: available_dates() is never empty; with files in the store it is the stems of
\* the files, each once, in descending order; with no file it is the one-element
\* list of today's date; and today's date is in it without a file of its own
\* exactly when the store holds no file.
C3_AvailableDates ==
    LET dates == available_dates(files, clock)
    IN  /\ Len(dates) >= 1
        /\ IF DOMAIN files # {}
           THEN /\ Range(dates) = {stem(path) : path \in DOMAIN files}
                /\ Len(dates) = Cardinality(DOMAIN files)
                /\ \A i, j \in DOMAIN dates : i < j => StrLess(dates[j], dates[i])
           ELSE dates = <<Today>>
        /\ (Today \in Range(dates) /\ Today \o Suffix \notin DOMAIN files) <=> DOMAIN files = {}

\* two files exist and none of them is today's
C3_Witness ==
    /\ Cardinality(DOMAIN files) >= 2
    /\ Today \o Suffix \notin DOMAIN files
    /\ Len(available_dates(files, clock)) = Cardinality(DOMAIN files)

\* the time strings of the cards, in drawing order
RECURSIVE CardTimes(_)
CardTimes(cs) == IF cs = <<>> THEN <<>> ELSE <<TimeKey(Head(cs).entry)>> \o CardTimes(Tail(cs))

\* the rearrangements of a list
Rearrangements(list) ==
    {[i \in DOMAIN list |-> list[order[i]]] :
        order \in {f \in [DOMAIN list -> DOMAIN list] : \A i, j \in DOMAIN list : f[i] = f[j] => i = j}}

\* a zero-padded HH:MM or HH:MM:SS time of day
IsClockTime(chars) ==
    /\ Len(chars) \in {5, 8}
    /\ \A i \in DOMAIN chars : IF i \in {3, 6} THEN chars[i] = ":" ELSE IsDigit(chars[i])
    /\ DigitsValue(SubSeq(chars, 1, 2)) <= 23
    /\ DigitsValue(SubSeq(chars, 4, 5)) <= 59
    /\ Len(chars) = 8 => DigitsValue(SubSeq(chars, 7, 8)) <= 59

\* C4: the cards are drawn in ascending order of the time string, every
\* rearrangement of the entry list gives the cards the same times in the same
\* order, and of two cards with zero-padded times t1 < t2 the card of t1 is not
\* lower on the canvas than the card of t2.
C4_CardsOrderedByTime ==
    /\ \A i, j \in DOMAIN cards :
           i < j => ~StrLess(TimeKey(cards[j].entry).v, TimeKey(cards[i].entry).v)
    /\ canvas_date # <<>> =>
           \A list \in Rearrangements(canvas_entries) :
               CardTimes(_redraw(list, canvas_width).cards) = CardTimes(cards)
    /\ \A i, j \in DOMAIN cards :
           (/\ IsClockTime(TimeKey(cards[i].entry).v)
            /\ IsClockTime(TimeKey(cards[j].entry).v)
            /\ StrLess(TimeKey(cards[i].entry).v, TimeKey(cards[j].entry).v))
               => cards[i].y_x60 <= cards[j].y_x60

\* render was given the 09:00 entry before the 08:00 entry and drew the 08:00 card
\* first and higher
C4_Witness ==
    /\ last.op = "render"
    /\ Len(canvas_entries) = 2
    /\ TimeKey(canvas_entries[1]) = Str(<<"0", "9", ":", "0", "0">>)
    /\ TimeKey(canvas_entries[2]) = Str(<<"0", "8", ":", "0", "0">>)
    /\ Len(cards) = 2
    /\ cards[1].entry = canvas_entries[2]
    /\ cards[1].y_x60 < cards[2].y_x60

\* the entries of a list that are equal to entry
Occurrences(list, entry) == Cardinality({i \in DOMAIN list : list[i] = entry})

\* C5: every entry handed to the renderer has exactly one card, and every card has
\* its row offset in [0, 14] hours, so its anchor lies between the 07:00 and the
\* 21:00 grid line.
C5_OneClampedCardPerEntry ==
    canvas_date # <<>> =>
        /\ \A i \in DOMAIN canvas_entries :
               Cardinality({j \in DOMAIN cards : cards[j].entry = canvas_entries[i]})
                   = Occurrences(canvas_entries, canvas_entries[i])
        /\ Len(cards) = Len(canvas_entries)
        /\ \A j \in DOMAIN cards :
               /\ cards[j].row_offset_min \in 0..((_end_hour - _start_hour) * 60)
               /\ cards[j].y_x60 >= GridLineY(_start_hour) * 60
               /\ cards[j].y_x60 <= GridLineY(_end_hour) * 60

\* a time value that is no HH:MM[:SS] string: a string whose parts are not two or
\* three integers, or a value that is no string
IsMalformedTime(time) ==
    \/ time.t # "str"
    \/ Len(split(time.v, ":")) \notin {2, 3}
    \/ \E i \in DOMAIN split(time.v, ":") : ~int(split(time.v, ":")[i]).ok

\* C6: a redraw never raises and never drops an entry, and the card of an entry with
\* a malformed time is at row offset 0, the 07:00 line.
C6_MalformedTimeKeepsRender ==
    canvas_date # <<>> =>
        /\ raised = "none"
        /\ Len(cards) = Len(canvas_entries)
        /\ \A j \in DOMAIN cards :
               IsMalformedTime(get(cards[j].entry, KeyTime, Null)) =>
                   /\ cards[j].row_offset_min = 0
                   /\ cards[j].y_x60 = GridLineY(_start_hour) * 60

\* C7: a submit with an empty or all-whitespace message shows the warning and leaves
\* the files, the history of appends, available_dates(), the selection, the table,
\* the cached entries and the timeline as they were.
C7_EmptyMessageRejected ==
    [][(last'.op = "_save_entry" /\ IsBlank(last'.text)) =>
           /\ dialog' = "showwarning"
           /\ available_dates(files', clock') = available_dates(files, clock)
           /\ UNCHANGED <<files, appended, selected_date, date_values, tree,
                          current_entries, canvas_date, canvas_entries, cards>>]_vars

\* a whitespace-only message was submitted while the store held a record and the
\* table showed it
C7_Witness ==
    /\ last.op = "_save_entry"
    /\ last.text # <<>>
    /\ IsBlank(last.text)
    /\ dialog = "showwarning"
    /\ appended # <<>>
    /\ tree # <<>>

\* the handlers that run _load_selected_date on a selection that may be no date
\* (_save_entry runs it on today's date)
LoadingHandlers == {"_goto_today", "ComboboxSelected"}

\* C8: when a handler comes to load a selected date that strptime rejects, it shows
\* the error, does not call load_entries and leaves the table, the cached entries,
\* the timeline and the files as they were.
C8_InvalidDateAborts ==
    [][(last'.op \in LoadingHandlers /\ ~strptime(selected_date').ok) =>
           /\ dialog' = "showerror"
           /\ ~loaded'
           /\ UNCHANGED <<files, tree, current_entries, canvas_date, canvas_entries, cards>>]_vars

\* the user picked the file name that is no date while the table showed the rows
\* of a day
C8_Witness ==
    /\ last.op = "ComboboxSelected"
    /\ ~strptime(selected_date).ok
    /\ dialog = "showerror"
    /\ ~loaded
    /\ tree # <<>>
    /\ canvas_date # <<>>

\* C9: a submit with a message adds exactly one record, stamped with the time of the
\* clock, to the file of the current day; after it the selection is today, today is
\* among the combobox values, and the table, the cached entries and the timeline
\* show load_entries(today) in file order, one row and one card for each record.
C9_SubmitAppendsAndRefreshes ==
    [][(last'.op = "_save_entry" /\ ~IsBlank(last'.text)) =>
           /\ \E system \in FormSystems, severity \in FormSeverities :
                  load_entries(files', now(clock')).entries
                      = Append(load_entries(files, now(clock)).entries,
                               NewEntry(now(clock), system, severity, strip(last'.text)))
           /\ \A path \in DOMAIN files : path # Today \o Suffix => files'[path] = files[path]
           /\ selected_date' = strftime_date(now(clock'))
           /\ selected_date' \in Range(date_values')
           /\ tree' = TreeRows(load_entries(files', now(clock')).entries)
           /\ current_entries' = load_entries(files', now(clock')).entries
           /\ canvas_entries' = load_entries(files', now(clock')).entries
           /\ canvas_date' = strftime_human(now(clock'))
           /\ Len(cards') = Len(canvas_entries')
           /\ \A i \in DOMAIN canvas_entries' :
                  Cardinality({j \in DOMAIN cards' : cards'[j].entry = canvas_entries'[i]})
                      = Occurrences(canvas_entries', canvas_entries'[i])
           /\ load_entries(files', now(clock')).entries = PayloadsOn(appended', now(clock'))]_vars

\* a second record was submitted on a day that was not the selected one before
\* (the day before was), and the table shows both records of the day
C9_Witness ==
    /\ last.op = "_save_entry"
    /\ ~IsBlank(last.text)
    /\ selected_date = Today
    /\ Len(tree) = 2
    /\ Len(cards) = 2
    /\ clock > 0

\* every file of the store is the log file of a date
OnlyDateFiles == \A path \in DOMAIN files : strptime(stem(path)).ok

\* C10: after "jump to today" the selection is today's date and the table and the
\* timeline show load_entries(today), whether the store holds no file, a file for
\* today, or files for other dates only.
C10_GotoTodaySelectsToday ==
    (last.op = "_goto_today" /\ OnlyDateFiles) =>
        /\ selected_date = Today
        /\ tree = TreeRows(load_entries(files, now(clock)).entries)
        /\ current_entries = load_entries(files, now(clock)).entries
        /\ canvas_entries = load_entries(files, now(clock)).entries

====
